---- MODULE Spec2Model ----
(***************************************************************************)
(* Brandenburg fishing-water catalogue.                                    *)
(*                                                                         *)
(*   spot_info_extractor.py  harvester: identifier files -> lookup client  *)
(*                           -> data.json                                  *)
(*   app.py                  load_fishing_spots (normalisation),           *)
(*                           create_map / update_map_by_cities /           *)
(*                           update_map (queries)                          *)
(*                                                                         *)
(* Three specifications share the module:                                  *)
(*   SpecHarvest    one run of main() of spot_info_extractor.py            *)
(*   SpecNormalize  load_fishing_spots over a bounded data.json            *)
(*   SpecQuery      the query handlers of app.py over a bounded data.json  *)
(***************************************************************************)
EXTENDS Integers, Sequences, FiniteSets, TLC

(***************************************************************************)
(* Bounds of the model.                                                    *)
(***************************************************************************)
\* records in data.json for SpecNormalize
MaxRecords == 2
\* records in data.json for SpecQuery
MaxSpots == 2
\* lines per identifier file for SpecHarvest
MaxLines == 1

(***************************************************************************)
(* Program constants.                                                      *)
(***************************************************************************)
LatMin == 47
LatMax == 55
LngMin == 5
LngMax == 16
DefaultMaxDistance == 50

(***************************************************************************)
(* Natural numbers of any size, as the sequence of their decimal digits,   *)
(* most significant first, without leading zeros (<<>> is 0).  They carry  *)
(* Python's unbounded ints and the exact arithmetic behind float().        *)
(***************************************************************************)
Zeros(k) == [i \in 1..k |-> 0]
Max(i, j) == IF i >= j THEN i ELSE j

\* the element of a set of one element: The({F(x) : x \in {e}}) is F(e),
\* e worked out once and before F
The(S) == CHOOSE x \in S : TRUE

\* leading zeros dropped
NatNorm(ds) ==
    SubSeq(ds,
           IF \A i \in 1..Len(ds) : ds[i] = 0 THEN Len(ds) + 1
           ELSE CHOOSE i \in 1..Len(ds) :
                    ds[i] # 0 /\ \A j \in 1..(i - 1) : ds[j] = 0,
           Len(ds))

\* trailing zeros dropped
TrimZeros(ds) ==
    SubSeq(ds, 1,
           IF \A i \in 1..Len(ds) : ds[i] = 0 THEN 0
           ELSE CHOOSE i \in 1..Len(ds) :
                    ds[i] # 0 /\ \A j \in (i + 1)..Len(ds) : ds[j] = 0)

\* the digit of weight 10^i
DigitAt(a, i) == IF i < Len(a) THEN a[Len(a) - i] ELSE 0

\* the i-th digit from the left, 0 past the end
DigitFrom(a, i) == IF i <= Len(a) THEN a[i] ELSE 0

\* -1, 0, 1: a against b digit by digit from the left, a digit that is not
\* there counting as 0
LexCmp(a, b) ==
    IF \A i \in 1..Max(Len(a), Len(b)) : DigitFrom(a, i) = DigitFrom(b, i) THEN 0
    ELSE IF \E i \in 1..Max(Len(a), Len(b)) :
                /\ DigitFrom(a, i) < DigitFrom(b, i)
                /\ \A j \in 1..(i - 1) : DigitFrom(a, j) = DigitFrom(b, j)
         THEN -1
    ELSE 1

\* -1, 0, 1 as a < b, a = b, a > b
NatCmp(a, b) ==
    IF Len(a) # Len(b) THEN (IF Len(a) < Len(b) THEN -1 ELSE 1)
    ELSE LexCmp(a, b)

RECURSIVE LinRange(_, _, _, _, _, _, _)
\* [ds, c]: the digits of weight 10^lo..10^hi of ca * a + cb * b and the
\* carry out of them, `carry` being the carry into 10^lo.  The range is
\* halved, the upper half taking the carry of the lower.
LinRange(a, ca, b, cb, lo, hi, carry) ==
    IF lo = hi
    THEN [ds |-> <<(ca * DigitAt(a, lo) + cb * DigitAt(b, lo) + carry) % 10>>,
          c  |-> (ca * DigitAt(a, lo) + cb * DigitAt(b, lo) + carry) \div 10]
    ELSE The({The({[ds |-> high.ds \o low.ds, c |-> high.c] :
                      high \in {LinRange(a, ca, b, cb, ((lo + hi) \div 2) + 1,
                                         hi, low.c)}}) :
                 low \in {LinRange(a, ca, b, cb, lo, (lo + hi) \div 2, carry)}})

\* ca * a + cb * b for digits ca, cb (cb = -1: a - b, for a >= b)
NatLin(a, ca, b, cb) ==
    IF a = <<>> /\ b = <<>> THEN <<>>
    ELSE The({NatNorm((IF r.c = 0 THEN <<>> ELSE <<r.c>>) \o r.ds) :
                 r \in {LinRange(a, ca, b, cb, 0, Max(Len(a), Len(b)) - 1, 0)}})

NatAdd(a, b) == NatLin(a, 1, b, 1)

\* a * d for a digit d
NatMulDigit(a, d) == NatLin(a, d, <<>>, 0)

\* a * 10^k
NatShift(a, k) == IF a = <<>> THEN <<>> ELSE a \o Zeros(k)

RECURSIVE MulRange(_, _, _, _)
\* a times the number b[lo..hi]
MulRange(a, b, lo, hi) ==
    IF lo = hi THEN NatMulDigit(a, b[lo])
    ELSE NatAdd(NatShift(MulRange(a, b, lo, (lo + hi) \div 2),
                         hi - ((lo + hi) \div 2)),
                MulRange(a, b, ((lo + hi) \div 2) + 1, hi))

NatMul(a, b) ==
    IF a = <<>> \/ b = <<>> THEN <<>> ELSE MulRange(a, b, 1, Len(b))

RECURSIVE NatPow2(_)
\* 2^n
NatPow2(n) ==
    IF n = 0 THEN <<1>>
    ELSE The({IF n % 2 = 0 THEN NatMul(h, h) ELSE NatMulDigit(NatMul(h, h), 2) :
                 h \in {NatPow2(n \div 2)}})

\* [q, r]: r = q * b + r' with r' < b, for r < 10 * b; q is the greatest
\* digit with q * b <= r and r' is r - q * b
NatDivDigit(r, b) ==
    The({[q |-> <<q>>, r |-> NatLin(r, 1, NatMulDigit(b, q), -1)] :
            q \in {IF NatCmp(r, b) < 0 THEN 0
                   ELSE CHOOSE d \in 1..9 :
                            /\ NatCmp(NatMulDigit(b, d), r) <= 0
                            /\ (d = 9 \/ NatCmp(NatMulDigit(b, d + 1), r) > 0)}})

RECURSIVE DivRange(_, _, _, _, _)
\* Long division of the digits a[lo..hi] by b, r the remainder brought in:
\* [q, r], q the hi - lo + 1 quotient digits.  The range is halved, the
\* lower half taking the remainder of the upper.
DivRange(a, b, lo, hi, r) ==
    IF lo = hi THEN NatDivDigit(NatNorm(Append(r, a[lo])), b)
    ELSE The({The({[q |-> high.q \o low.q, r |-> low.r] :
                      low \in {DivRange(a, b, ((lo + hi) \div 2) + 1, hi,
                                        high.r)}}) :
                 high \in {DivRange(a, b, lo, (lo + hi) \div 2, r)}})

\* [q, r] with a = q * b + r and r < b, for b > 0
NatDivMod(a, b) ==
    IF a = <<>> THEN [q |-> <<>>, r |-> <<>>]
    ELSE The({[q |-> NatNorm(d.q), r |-> d.r] :
                 d \in {DivRange(a, b, 1, Len(a), <<>>)}})

NatIsOdd(a) == a # <<>> /\ a[Len(a)] % 2 = 1

RECURSIVE NatOfInt(_)
\* the digits of an integer i >= 0
NatOfInt(i) == IF i = 0 THEN <<>> ELSE Append(NatOfInt(i \div 10), i % 10)

RECURSIVE IntOfNat(_)
\* the integer a short digit sequence denotes
IntOfNat(ds) ==
    IF ds = <<>> THEN 0
    ELSE 10 * IntOfNat(SubSeq(ds, 1, Len(ds) - 1)) + ds[Len(ds)]

(***************************************************************************)
(* Python values.  Every value is a record [t, s, n, e]:                   *)
(*   t = "missing"  the key is absent from its dict                        *)
(*   t = "none"     None / JSON null                                       *)
(*   t = "bool"     n = 0 (False) or 1 (True)                              *)
(*   t = "int"      n = the sign (1, -1), s = the decimal digits (<<>>: 0) *)
(*   t = "float"    a finite double: n = the sign, s = the digits d1..dk   *)
(*                  and e = the exponent of the shortest decimal           *)
(*                  0.d1..dk * 10^e that float() reads back as the same    *)
(*                  double - the digits repr() prints; s = <<>> for 0.0    *)
(*                  and -0.0                                               *)
(*   t = "nan"      float('nan');  t = "inf": float('inf'), n = the sign   *)
(*   t = "str"      s = the characters, as Unicode code points             *)
(*   t = "list"     s = the characters of its repr, n = its length         *)
(* The outcome of an operation that raises is [t |-> the exception].       *)
(***************************************************************************)
Missing    == [t |-> "missing", s |-> <<>>, n |-> 0, e |-> 0]
PyNone     == [t |-> "none",    s |-> <<>>, n |-> 0, e |-> 0]
PyBool(b)  == [t |-> "bool",    s |-> <<>>, n |-> IF b THEN 1 ELSE 0, e |-> 0]
PyBigInt(sign, digits) == [t |-> "int", s |-> digits, n |-> sign, e |-> 0]
PyInt(i)   == PyBigInt(IF i < 0 THEN -1 ELSE 1, NatOfInt(IF i < 0 THEN -i ELSE i))
PyFloat(sign, digits, exp) == [t |-> "float", s |-> digits, n |-> sign, e |-> exp]
PyNaN      == [t |-> "nan",     s |-> <<>>, n |-> 0, e |-> 0]
PyInf(sign) == [t |-> "inf",    s |-> <<>>, n |-> sign, e |-> 0]
PyStr(cs)  == [t |-> "str",     s |-> cs,   n |-> 0, e |-> 0]
PyList(repr, len) == [t |-> "list", s |-> repr, n |-> len, e |-> 0]

ValueError    == [t |-> "ValueError",    s |-> <<>>, n |-> 0, e |-> 0]
TypeError     == [t |-> "TypeError",     s |-> <<>>, n |-> 0, e |-> 0]
OverflowError == [t |-> "OverflowError", s |-> <<>>, n |-> 0, e |-> 0]

IsException(v) == v.t \in {"ValueError", "TypeError", "OverflowError"}

\* bool(v): Python truthiness
Truthy(v) ==
    CASE v.t = "missing" -> FALSE
      [] v.t = "none"    -> FALSE
      [] v.t = "bool"    -> v.n = 1
      [] v.t = "int"     -> v.s # <<>>
      [] v.t = "float"   -> v.s # <<>>
      [] v.t = "nan"     -> TRUE
      [] v.t = "inf"     -> TRUE
      [] v.t = "str"     -> Len(v.s) > 0
      [] v.t = "list"    -> v.n > 0

\* v != 0 (False == 0, 0.0 == 0 and -0.0 == 0 in Python)
NotEqualZero(v) ==
    CASE v.t = "bool"          -> v.n # 0
      [] v.t \in {"int", "float"} -> v.s # <<>>
      [] OTHER                 -> TRUE

(***************************************************************************)
(* Comparison of numbers.                                                  *)
(***************************************************************************)
\* the sign of a float or an int: -1, 0, 1
Signum(x) == IF x.s = <<>> THEN 0 ELSE x.n

\* -1, 0, 1 as |x| < |y|, |x| = |y|, |x| > |y|, neither of them 0, |x| and
\* |y| being 0.d1..dk * 10^e (for an int, e is the number of its digits)
MagCmp(x, y) ==
    IF (IF x.t = "int" THEN Len(x.s) ELSE x.e)
       # (IF y.t = "int" THEN Len(y.s) ELSE y.e)
    THEN (IF (IF x.t = "int" THEN Len(x.s) ELSE x.e)
             < (IF y.t = "int" THEN Len(y.s) ELSE y.e) THEN -1 ELSE 1)
    ELSE LexCmp(x.s, y.s)

\* -1, 0, 1 as x < y, x = y, x > y for finite floats and ints.  The doubles
\* keep the order of their shortest decimals.
NumCmp(x, y) ==
    IF Signum(x) # Signum(y) THEN (IF Signum(x) < Signum(y) THEN -1 ELSE 1)
    ELSE IF Signum(x) = 0 THEN 0
    ELSE Signum(x) * MagCmp(x, y)

\* lo <= x <= hi for the outcome x of float() and integer bounds: every
\* comparison with nan is false, inf lies outside any bounded interval
Between(lo, x, hi) ==
    /\ x.t = "float"
    /\ NumCmp(PyInt(lo), x) <= 0
    /\ NumCmp(x, PyInt(hi)) <= 0

\* InRegion with the bounds excluded
InRegionExclusive(lat, lng) ==
    /\ lat.t = "float" /\ lng.t = "float"
    /\ NumCmp(PyInt(LatMin), lat) < 0 /\ NumCmp(lat, PyInt(LatMax)) < 0
    /\ NumCmp(PyInt(LngMin), lng) < 0 /\ NumCmp(lng, PyInt(LngMax)) < 0

\* 47 <= lat <= 55 and 5 <= lng <= 16
InRegion(lat, lng) == Between(LatMin, lat, LatMax) /\ Between(LngMin, lng, LngMax)

(***************************************************************************)
(* Doubles.  float() rounds a decimal to the nearest double m * 2^x,       *)
(* m < 2^53, ties to the even m (IEEE 754 binary64), and repr() prints the *)
(* shortest decimal that reads back as that double.                        *)
(***************************************************************************)
\* 2^52 and 2^53
TwoTo52 == <<4, 5, 0, 3, 5, 9, 9, 6, 2, 7, 3, 7, 0, 4, 9, 6>>
TwoTo53 == <<9, 0, 0, 7, 1, 9, 9, 2, 5, 4, 7, 4, 0, 9, 9, 2>>
\* the least and the greatest binary exponent x of a double m * 2^x
MinBinExp == -1074
MaxBinExp == 971

\* [a, b, x] with a / b < 2^53, and >= 2^52 unless x is the least exponent:
\* b is doubled j times, until a < b * 2^53 = t
FitBinExp(a, b, t, x) ==
    The({[a |-> a, b |-> NatMul(b, NatPow2(j)), x |-> x + j] :
            j \in {CHOOSE j \in 0..8 :
                      /\ NatCmp(a, NatMul(t, NatPow2(j))) < 0
                      /\ \A i \in 0..(j - 1) :
                            NatCmp(a, NatMul(t, NatPow2(i))) >= 0}})

\* the double m * 2^x, zero when m is 0 and infinite beyond the greatest
Double(m, x) ==
    IF m = <<>> THEN [kind |-> "zero", m |-> <<>>, x |-> 0]
    ELSE IF m = TwoTo53 THEN
         (IF x + 1 > MaxBinExp THEN [kind |-> "inf", m |-> <<>>, x |-> 0]
          ELSE [kind |-> "finite", m |-> TwoTo52, x |-> x + 1])
    ELSE IF x > MaxBinExp THEN [kind |-> "inf", m |-> <<>>, x |-> 0]
    ELSE [kind |-> "finite", m |-> m, x |-> x]

\* a / b = d.q + d.r / b rounded to an integer, ties to even
RoundedQuotient(d, b) ==
    IF NatCmp(NatMulDigit(d.r, 2), b) > 0
       \/ (NatCmp(NatMulDigit(d.r, 2), b) = 0 /\ NatIsOdd(d.q))
    THEN NatAdd(d.q, <<1>>) ELSE d.q

\* the double nearest to a / (b * 2^x), x not above its binary exponent
RoundRatio(a, b, x) ==
    The({Double(RoundedQuotient(NatDivMod(f.a, f.b), f.b), f.x) :
            f \in {IF x >= 0
                   THEN FitBinExp(a, NatMul(b, NatPow2(x)),
                                  NatMul(NatMul(b, NatPow2(x)), TwoTo53), x)
                   ELSE FitBinExp(NatMul(a, NatPow2(-x)), b,
                                  NatMul(b, TwoTo53), x)}})

\* the double nearest to 0.D * 10^exp, D = digits without leading zeros;
\* 2^(x + 53) <= 0.D * 10^exp for x = (exp - 1) * log2(10) - 54
NearestDouble(digits, exp) ==
    RoundRatio(NatShift(digits, Max(exp - Len(digits), 0)),
               NatShift(<<1>>, Max(Len(digits) - exp, 0)),
               Max((((exp - 1) * 33219) \div 10000) - 54, MinBinExp))

\* The shortest decimal of the double m * 2^x: v = r / s, the doubles that
\* round to v lie between (r - mm) / s and (r + mp) / s, the ends included
\* when m is even.
RangeOf(m, x) ==
    IF m = TwoTo52 /\ x > MinBinExp
    THEN (IF x >= 0
          THEN [r |-> NatMul(NatMulDigit(m, 4), NatPow2(x)), s |-> <<4>>,
                mp |-> NatPow2(x + 1), mm |-> NatPow2(x), even |-> TRUE]
          ELSE [r |-> NatMulDigit(m, 4), s |-> NatPow2(2 - x),
                mp |-> <<2>>, mm |-> <<1>>, even |-> TRUE])
    ELSE (IF x >= 0
          THEN [r |-> NatMul(NatMulDigit(m, 2), NatPow2(x)), s |-> <<2>>,
                mp |-> NatPow2(x), mm |-> NatPow2(x), even |-> ~NatIsOdd(m)]
          ELSE [r |-> NatMulDigit(m, 2), s |-> NatPow2(1 - x),
                mp |-> <<1>>, mm |-> <<1>>, even |-> ~NatIsOdd(m)])

\* the upper end is below 10^k (at most 10^k when it is excluded)
Below(g, k) ==
    IF g.even
    THEN NatCmp(NatShift(NatAdd(g.r, g.mp), Max(-k, 0)), NatShift(g.s, Max(k, 0))) < 0
    ELSE NatCmp(NatShift(NatAdd(g.r, g.mp), Max(-k, 0)), NatShift(g.s, Max(k, 0))) <= 0

\* the least k with the upper end below 10^k; it is Len(r) - Len(s) or one
\* or two above
DecExp(g) ==
    CHOOSE k \in (Len(g.r) - Len(g.s))..(Len(g.r) - Len(g.s) + 2) :
        /\ Below(g, k)
        /\ \A j \in (Len(g.r) - Len(g.s))..(k - 1) : ~Below(g, j)

\* g with r, mp, mm (k < 0) or s (k >= 0) scaled by 10^|k|: 1/10 <= upper
\* end < 1; no digit is out yet
Scaled(g, k) ==
    [r |-> NatShift(g.r, Max(-k, 0)), s |-> NatShift(g.s, Max(k, 0)),
     mp |-> NatShift(g.mp, Max(-k, 0)), mm |-> NatShift(g.mm, Max(-k, 0)),
     even |-> g.even, exp |-> k, digits |-> <<>>, done |-> FALSE]

\* the remainder is within the lower / the upper margin
LowOK(g, r)  == IF g.even THEN NatCmp(r, g.mm) <= 0 ELSE NatCmp(r, g.mm) < 0
HighOK(g, r) == IF g.even THEN NatCmp(NatAdd(r, g.mp), g.s) >= 0
                ELSE NatCmp(NatAdd(r, g.mp), g.s) > 0

\* the last digit: d or d + 1, the nearer, d even on a tie
LastDigit(g, d) ==
    IF LowOK(g, d.r) /\ ~HighOK(g, d.r) THEN d.q[1]
    ELSE IF ~LowOK(g, d.r) THEN d.q[1] + 1
    ELSE IF NatCmp(NatMulDigit(d.r, 2), g.s) < 0 THEN d.q[1]
    ELSE IF NatCmp(NatMulDigit(d.r, 2), g.s) > 0 THEN d.q[1] + 1
    ELSE IF d.q[1] % 2 = 0 THEN d.q[1] ELSE d.q[1] + 1

\* g (margins already scaled) after the digit d = [q, r]
WithDigit(g, d) ==
    IF ~LowOK(g, d.r) /\ ~HighOK(g, d.r)
    THEN [g EXCEPT !.r = d.r, !.digits = Append(@, d.q[1])]
    ELSE [g EXCEPT !.r = d.r, !.digits = Append(@, LastDigit(g, d)),
                   !.done = TRUE]

\* one more digit, unless the digits are all out: r and the margins times
\* 10, the digit is the quotient of r by s
NextDigit(g) ==
    IF g.done THEN g
    ELSE WithDigit([g EXCEPT !.mp = NatShift(@, 1), !.mm = NatShift(@, 1)],
                   NatDivDigit(NatShift(g.r, 1), g.s))

RECURSIVE Generate(_, _, _)
\* the digits lo..hi, the range halved; a double has at most 17
Generate(g, lo, hi) ==
    IF lo = hi THEN NextDigit(g)
    ELSE The({Generate(h, ((lo + hi) \div 2) + 1, hi) :
                 h \in {Generate(g, lo, (lo + hi) \div 2)}})

\* [digits, exp, ..]: the shortest decimal 0.digits * 10^exp of m * 2^x,
\* of 17 digits at most
ShortestDecimal(m, x) ==
    The({Generate(Scaled(g, DecExp(g)), 1, 17) : g \in {RangeOf(m, x)}})

\* the float for the outcome of a rounding; Python's float() of a string
\* gives inf where float() of an int raises OverflowError
FloatOfDouble(sign, d, overflow) ==
    CASE d.kind = "zero" -> PyFloat(sign, <<>>, 0)
      [] d.kind = "inf"  -> overflow
      [] OTHER           ->
           The({PyFloat(sign, sd.digits, sd.exp) :
                   sd \in {ShortestDecimal(d.m, d.x)}})

\* The float nearest to sign * 0.D * 10^exp, D = digits without leading or
\* trailing zeros, not empty.  Decimals of at most 15 digits between 1e-307
\* and 1e308 are told apart by the doubles and are the shortest decimal of
\* their double; a decimal of 1e310 or more is beyond the doubles, one
\* below 1e-331 rounds to 0.
NearestFloat(sign, digits, exp, overflow) ==
    IF Len(digits) <= 15 /\ -306 <= exp /\ exp <= 308
    THEN PyFloat(sign, digits, exp)
    ELSE IF exp > 310 THEN overflow
    ELSE IF exp < -330 THEN PyFloat(sign, <<>>, 0)
    ELSE FloatOfDouble(sign, NearestDouble(digits, exp), overflow)

\* the float nearest to sign * digits * 10^exp10, any digits
DecimalToFloat(sign, digits, exp10, overflow) ==
    IF NatNorm(digits) = <<>> THEN PyFloat(sign, <<>>, 0)
    ELSE NearestFloat(sign, TrimZeros(NatNorm(digits)),
                      Len(NatNorm(digits)) + exp10, overflow)

(***************************************************************************)
(* Strings are sequences of Unicode code points.                           *)
(***************************************************************************)
\* str.isspace(): the characters str.strip() removes
IsSpace(c) ==
    \/ c \in {9, 10, 11, 12, 13, 28, 29, 30, 31, 32, 133, 160, 5760}
    \/ c \in 8192..8202
    \/ c \in {8232, 8233, 8239, 8287, 12288}

\* str.lstrip(): cs from its first character that is no space
LStrip(cs) ==
    IF \A i \in 1..Len(cs) : IsSpace(cs[i]) THEN <<>>
    ELSE SubSeq(cs,
                CHOOSE i \in 1..Len(cs) :
                    ~IsSpace(cs[i]) /\ \A j \in 1..(i - 1) : IsSpace(cs[j]),
                Len(cs))

\* str.rstrip(): cs up to its last character that is no space
RStrip(cs) ==
    IF \A i \in 1..Len(cs) : IsSpace(cs[i]) THEN <<>>
    ELSE SubSeq(cs, 1,
                CHOOSE i \in 1..Len(cs) :
                    ~IsSpace(cs[i]) /\ \A j \in (i + 1)..Len(cs) : IsSpace(cs[j]))

\* str.strip()
Strip(cs) == RStrip(LStrip(cs))

\* str.startswith(prefix)
StartsWith(cs, prefix) ==
    /\ Len(prefix) <= Len(cs)
    /\ SubSeq(cs, 1, Len(prefix)) = prefix

\* the characters of a digit sequence
DigitChars(ds) == [i \in 1..Len(ds) |-> 48 + ds[i]]

\* repr of a positive float 0.d1..dk * 10^e: d1..dk with the point after e
\* digits when -4 < e <= 16, else d1.d2..dk and the exponent e - 1, with
\* its sign and at least two digits
FloatChars(ds, e) ==
    IF -4 < e /\ e <= 0 THEN <<48, 46>> \o DigitChars(Zeros(-e) \o ds)
    ELSE IF 0 < e /\ e <= 16 THEN
        (IF e >= Len(ds) THEN DigitChars(ds \o Zeros(e - Len(ds))) \o <<46, 48>>
         ELSE DigitChars(SubSeq(ds, 1, e)) \o <<46>>
              \o DigitChars(SubSeq(ds, e + 1, Len(ds))))
    ELSE DigitChars(<<ds[1]>>)
         \o (IF Len(ds) > 1 THEN <<46>> \o DigitChars(Tail(ds)) ELSE <<>>)
         \o <<101>>
         \o (IF e - 1 < 0
             THEN <<45>> \o (IF 1 - e < 10 THEN <<48>> ELSE <<>>)
                  \o DigitChars(NatOfInt(1 - e))
             ELSE <<43>> \o (IF e - 1 < 10 THEN <<48>> ELSE <<>>)
                  \o DigitChars(NatOfInt(e - 1)))

\* str(v); a key that is absent has no value to print
Str(v) ==
    CASE v.t = "str"   -> v.s
      [] v.t = "list"  -> v.s
      [] v.t = "none"  -> <<78, 111, 110, 101>>                \* None
      [] v.t = "bool"  -> IF v.n = 1 THEN <<84, 114, 117, 101>>       \* True
                          ELSE <<70, 97, 108, 115, 101>>              \* False
      [] v.t = "int"   -> IF v.s = <<>> THEN <<48>>
                          ELSE (IF v.n < 0 THEN <<45>> ELSE <<>>)
                               \o DigitChars(v.s)
      [] v.t = "float" -> (IF v.n < 0 THEN <<45>> ELSE <<>>)
                          \o (IF v.s = <<>> THEN <<48, 46, 48>>       \* 0.0
                              ELSE FloatChars(v.s, v.e))
      [] v.t = "nan"   -> <<110, 97, 110>>                            \* nan
      [] v.t = "inf"   -> (IF v.n < 0 THEN <<45>> ELSE <<>>)
                          \o <<105, 110, 102>>                        \* inf

(***************************************************************************)
(* float(<str>).                                                           *)
(***************************************************************************)
\* the code points of the digit 0 of every decimal digit range of Unicode
\* 14.0 (unicodedata of Python 3.11); each range holds 0..9 in order
DecimalZeros ==
    {48, 1632, 1776, 1984, 2406, 2534, 2662, 2790, 2918, 3046, 3174, 3302,
     3430, 3558, 3664, 3792, 3872, 4160, 4240, 6112, 6160, 6470, 6608, 6784,
     6800, 6992, 7088, 7232, 7248, 42528, 43216, 43264, 43472, 43504, 43600,
     44016, 65296, 66720, 68912, 69734, 69872, 69942, 70096, 70384, 70736,
     70864, 71248, 71360, 71472, 71904, 72016, 72784, 73040, 73120, 92768,
     92864, 93008, 120782, 120792, 120802, 120812, 120822, 123200, 123632,
     125264, 130032}

\* unicodedata.decimal(c), for a decimal digit c
DecimalValue(c) == c - (CHOOSE z \in DecimalZeros : z <= c /\ c <= z + 9)

\* float() first turns every non-ASCII space into " ", every non-ASCII
\* decimal digit into its ASCII digit and any other non-ASCII character
\* into "?"
ToAscii(c) ==
    IF c < 128 THEN c
    ELSE IF IsSpace(c) THEN 32
    ELSE IF \E z \in DecimalZeros : z <= c /\ c <= z + 9
         THEN 48 + DecimalValue(c)
    ELSE 63

\* a digit of the text once ToAscii has been applied to it: "0".."9"
IsAsciiDigit(c) == 48 <= c /\ c <= 57

\* an underscore stands between two digits
UnderscoresOK(cs) ==
    \A i \in 1..Len(cs) :
        cs[i] = 95 => /\ 1 < i /\ IsAsciiDigit(cs[i - 1])
                      /\ i < Len(cs) /\ IsAsciiDigit(cs[i + 1])

\* the whitespace float() skips around the number
IsAsciiSpace(c) == c \in {9, 10, 11, 12, 13, 32}

\* the text between the first and the last character that float() does
\* not skip
Skipped(cs) ==
    IF \A i \in 1..Len(cs) : IsAsciiSpace(cs[i]) THEN <<>>
    ELSE SubSeq(cs,
                CHOOSE i \in 1..Len(cs) :
                    ~IsAsciiSpace(cs[i]) /\ \A j \in 1..(i - 1) : IsAsciiSpace(cs[j]),
                CHOOSE i \in 1..Len(cs) :
                    ~IsAsciiSpace(cs[i]) /\ \A j \in (i + 1)..Len(cs) : IsAsciiSpace(cs[j]))

\* cs with A-Z as a-z
Lower(cs) ==
    [i \in 1..Len(cs) |-> IF 65 <= cs[i] /\ cs[i] <= 90 THEN cs[i] + 32 ELSE cs[i]]

\* how many digits cs has from position i on
DigitRun(cs, i) ==
    IF \A j \in i..Len(cs) : IsAsciiDigit(cs[j]) THEN Max(Len(cs) - i + 1, 0)
    ELSE (CHOOSE j \in i..Len(cs) :
              ~IsAsciiDigit(cs[j]) /\ \A m \in i..(j - 1) : IsAsciiDigit(cs[m])) - i

\* the digits cs[i..i+k-1]
DigitsAt(cs, i, k) == [j \in 1..k |-> cs[i + j - 1] - 48]

\* float() takes at most MAX_DIGITS digits, leading zeros not counted, and
\* at most MAX_DIGITS digits after the point; an exponent of more than 9
\* digits, leading zeros not counted, counts as MAX_ABS_EXP
MAX_DIGITS == 1000000000
MAX_ABS_EXP == 1100000000

\* the value of the exponent digits
ExpValue(ds) ==
    IF Len(NatNorm(ds)) > 9 THEN MAX_ABS_EXP ELSE IntOfNat(NatNorm(ds))

\* the exponent "e[sign]digits" from position i to the end of cs, or
\* nothing there; `first` is the position of its first digit
ParseExponent(sign, digits, frac, cs, i) ==
    LET first == IF i < Len(cs) /\ cs[i + 1] \in {43, 45} THEN i + 2 ELSE i + 1
    IN  IF i <= Len(cs)
           /\ ~(/\ cs[i] \in {101, 69}
                /\ DigitRun(cs, first) >= 1
                /\ first + DigitRun(cs, first) - 1 = Len(cs))
        THEN ValueError
        ELSE DecimalToFloat(sign, digits,
                 (IF i > Len(cs) THEN 0
                  ELSE (IF cs[i + 1] = 45 THEN -1 ELSE 1)
                       * ExpValue(DigitsAt(cs, first, Len(cs) - first + 1)))
                     - frac,
                 PyInf(sign))

\* digits [. digits] [exponent], ni digits before the point and nf after
\* it; there is a digit on one side of the point at least, and no more
\* digits than float() takes
ParseDecimal(sign, cs, ni) ==
    LET point  == ni < Len(cs) /\ cs[ni + 1] = 46
        nf     == IF point THEN DigitRun(cs, ni + 2) ELSE 0
        digits == DigitsAt(cs, 1, ni)
                      \o (IF point THEN DigitsAt(cs, ni + 2, nf) ELSE <<>>)
    IN  IF ni + nf = 0 THEN ValueError
        ELSE IF Len(NatNorm(digits)) > MAX_DIGITS \/ nf > MAX_DIGITS
        THEN ValueError
        ELSE ParseExponent(sign, digits, nf, cs,
                           ni + nf + (IF point THEN 2 ELSE 1))

\* the text after the sign
ParseUnsigned(sign, cs) ==
    IF Lower(cs) = <<110, 97, 110>> THEN PyNaN                       \* nan
    ELSE IF Lower(cs) = <<105, 110, 102>> THEN PyInf(sign)           \* inf
    ELSE IF Lower(cs) = <<105, 110, 102, 105, 110, 105, 116, 121>>   \* infinity
         THEN PyInf(sign)
    ELSE ParseDecimal(sign, cs, DigitRun(cs, 1))

\* the text without the whitespace around it: an optional sign first
ParseStripped(cs) ==
    ParseUnsigned(IF cs # <<>> /\ Head(cs) = 45 THEN -1 ELSE 1,
                  IF cs # <<>> /\ Head(cs) \in {43, 45} THEN Tail(cs) ELSE cs)

\* the text in ASCII: the underscores are checked and then dropped
ParseAscii(cs) ==
    IF ~UnderscoresOK(cs) THEN ValueError
    ELSE ParseStripped(Skipped(SelectSeq(cs, LAMBDA c : c # 95)))

\* float(<str>): whitespace around the number is skipped; an optional sign,
\* then "nan", "inf", "infinity" in any case or digits with an optional
\* point and an optional exponent; single underscores may separate digits.
\* Anything else is a ValueError.
ParseFloat(cs) == ParseAscii([i \in 1..Len(cs) |-> ToAscii(cs[i])])

\* float(v): a string is parsed; an int too large for a double raises
\* OverflowError; None and a list raise TypeError
ToFloat(v) ==
    CASE v.t = "str"   -> ParseFloat(v.s)
      [] v.t = "int"   -> DecimalToFloat(v.n, v.s, 0, OverflowError)
      [] v.t = "bool"  -> IF v.n = 1 THEN PyFloat(1, <<1>>, 1)
                          ELSE PyFloat(1, <<>>, 0)
      [] v.t = "float" -> v
      [] v.t = "nan"   -> v
      [] v.t = "inf"   -> v
      [] OTHER         -> TypeError

(***************************************************************************)
(* app.py: load_fishing_spots.                                             *)
(*                                                                         *)
(* An element of data.json is a record [t, id, bezeichnung, verein, lat,   *)
(* lng]: t = "dict" for a JSON object, whose five fields are Python values *)
(* (Missing for an absent key); any other t is a JSON value that is not an *)
(* object (a number, a string, null, a list).                              *)
(***************************************************************************)
RawDict(id, bezeichnung, verein, lat, lng) ==
    [t |-> "dict", id |-> id, bezeichnung |-> bezeichnung, verein |-> verein,
     lat |-> lat, lng |-> lng]

RawNonDict(kind) ==
    [t |-> kind, id |-> Missing, bezeichnung |-> Missing, verein |-> Missing,
     lat |-> Missing, lng |-> Missing]

\* spot.get(key): None when the key is absent
Get(spot, key) == IF spot[key].t = "missing" THEN PyNone ELSE spot[key]

\* 'N/A'
NA == PyStr(<<78, 47, 65>>)

\* the condition of lines 16-18
HasRequiredFields(spot) ==
    /\ Truthy(Get(spot, "lat"))
    /\ Truthy(Get(spot, "lng"))
    /\ Truthy(Get(spot, "id"))
    /\ Truthy(Get(spot, "bezeichnung"))
    /\ NotEqualZero(Get(spot, "lat"))
    /\ NotEqualZero(Get(spot, "lng"))

\* float(str(v).strip()) for the value v of a key that is there
CoerceCoordinate(v) == ParseFloat(Strip(Str(v)))

\* the dict appended at lines 27-33; verein is spot.get('verein', 'N/A')
Appended(spot, lat, lng) ==
    [id |-> spot.id, bezeichnung |-> spot.bezeichnung,
     verein |-> IF spot.verein.t = "missing" THEN NA ELSE spot.verein,
     lat |-> lat, lng |-> lng]

\* lines 20-35, lat and lng being the outcomes of the two conversions
KeepIfInRegion(spot, lat, lng) ==
    [exc  |-> "none",
     keep |-> ~IsException(lat) /\ ~IsException(lng) /\ InRegion(lat, lng),
     spot |-> Appended(spot, lat, lng)]

\* One iteration of the loop of lines 14-35 on `spot`:
\*   [exc |-> "AttributeError"]  spot.get does not exist (spot is no dict)
\*   [exc |-> "none", keep |-> TRUE, spot |-> the dict appended]
\*   [exc |-> "none", keep |-> FALSE]  the record is skipped
FilterStep(spot) ==
    IF spot.t # "dict"
    THEN [exc |-> "AttributeError", keep |-> FALSE, spot |-> spot]
    ELSE IF ~HasRequiredFields(spot)
         THEN [exc |-> "none", keep |-> FALSE, spot |-> spot]
         ELSE KeepIfInRegion(spot, CoerceCoordinate(spot.lat),
                             CoerceCoordinate(spot.lng))

RECURSIVE FilterFrom(_, _, _)
\* the loop of lines 14-35 from index i on, filtered_spots = acc so far, r
\* the outcome of the iteration on data[i]
FilterFrom(data, i, acc) ==
    IF i > Len(data) THEN [exc |-> "none", spots |-> acc]
    ELSE The({IF r.exc # "none" THEN [exc |-> r.exc, spots |-> <<>>]
              ELSE FilterFrom(data, i + 1,
                              IF r.keep THEN Append(acc, r.spot) ELSE acc) :
                 r \in {FilterStep(data[i])}})

\* load_fishing_spots() when data.json parses to the list `data`:
\* [exc, spots], spots being the list returned when exc = "none"
LoadFishingSpots(data) == FilterFrom(data, 1, <<>>)

(***************************************************************************)
(* app.py: create_map, update_map_by_cities, update_map.                   *)
(*                                                                         *)
(* selected_cities is [t |-> "none"] (None, the default) or a list of      *)
(* prefixes.  A call yields [exc, markers(, msg)]: exc = "none" and the    *)
(* markers put on the map, or the exception that leaves the call.          *)
(***************************************************************************)
SelNone == [t |-> "none", items |-> <<>>]
SelList(items) == [t |-> "list", items |-> items]

\* AnyStartsWith with all() in the place of any()
AllStartWith(spot_id, prefixes) ==
    IF spot_id.t # "str" THEN [exc |-> "AttributeError", val |-> FALSE]
    ELSE [exc |-> "none",
          val |-> \A i \in 1..Len(prefixes) : StartsWith(spot_id.s, prefixes[i])]

\* any(spot_id.startswith(p) for p in selected_cities), selected_cities not
\* empty: an id that is no str has no startswith
AnyStartsWith(spot_id, prefixes) ==
    IF spot_id.t # "str" THEN [exc |-> "AttributeError", val |-> FALSE]
    ELSE [exc |-> "none",
          val |-> \E i \in 1..Len(prefixes) : StartsWith(spot_id.s, prefixes[i])]

RECURSIVE PrefixFilter(_, _, _, _)
\* the loop of lines 62-65 from index i on, filtered_spots = acc so far, a
\* the outcome of any(...) on spots[i]
PrefixFilter(spots, prefixes, i, acc) ==
    IF i > Len(spots) THEN [exc |-> "none", spots |-> acc]
    ELSE The({IF a.exc # "none" THEN [exc |-> a.exc, spots |-> <<>>]
              ELSE PrefixFilter(spots, prefixes, i + 1,
                                IF a.val THEN Append(acc, spots[i]) ELSE acc) :
                 a \in {AnyStartsWith(spots[i].id, prefixes)}})

\* the marker of lines 111-144 for one spot; has_distance is `'distance' in
\* spot`, and no dict built by load_fishing_spots has that key
Marker(spot) ==
    [id |-> spot.id, bezeichnung |-> spot.bezeichnung, verein |-> spot.verein,
     lat |-> spot.lat, lng |-> spot.lng, has_distance |-> FALSE]

\* lines 71-146: the map with the markers of fishing_spots
MapOf(chosen) ==
    IF chosen.exc # "none" THEN [exc |-> chosen.exc, markers |-> <<>>]
    ELSE [exc |-> "none",
          markers |-> [i \in 1..Len(chosen.spots) |-> Marker(chosen.spots[i])]]

\* lines 59-69 on the list load_fishing_spots returned
ChosenSpots(loaded, selected_cities) ==
    IF loaded.exc # "none" THEN loaded
    \* `if selected_cities:` - None and [] are both false
    ELSE IF selected_cities.t = "list" /\ Len(selected_cities.items) > 0
         THEN PrefixFilter(loaded.spots, selected_cities.items, 1, <<>>)
         ELSE [exc |-> "none", spots |-> <<>>]

\* create_map(selected_cities)
CreateMap(data, selected_cities) ==
    MapOf(ChosenSpots(LoadFishingSpots(data), selected_cities))

\* line 160, create_map(user_lat, user_lng, max_distance): create_map takes
\* at most one positional argument, so the call raises TypeError before its
\* body runs, whatever the three values
CreateMapNear == [exc |-> "TypeError", markers |-> <<>>]

\* city_prefix_map of update_map_by_cities
CityNames == <<"Potsdam", "Cottbus", "Frankfurt-Oder">>
city_prefix_map ==
    [city \in {CityNames[i] : i \in 1..Len(CityNames)} |->
        CASE city = "Potsdam"        -> <<80>>    \* "P"
          [] city = "Cottbus"        -> <<67>>    \* "C"
          [] city = "Frankfurt-Oder" -> <<70>>]   \* "F"

RECURSIVE SelectedPrefixes(_)
\* [city_prefix_map[city] for city in selected_cities if city in city_prefix_map]
SelectedPrefixes(selected) ==
    IF selected = <<>> THEN <<>>
    ELSE (IF Head(selected) \in DOMAIN city_prefix_map
          THEN <<city_prefix_map[Head(selected)]>> ELSE <<>>)
         \o SelectedPrefixes(Tail(selected))

\* line 409: selected_prefixes if selected_prefixes else None
PrefixesOrNone(selected_prefixes) ==
    IF selected_prefixes # <<>> THEN SelList(selected_prefixes) ELSE SelNone

\* update_map_by_cities(selected_cities)
UpdateMapByCities(data, selected) ==
    CreateMap(data, PrefixesOrNone(SelectedPrefixes(selected)))

WithMsg(res, msg) == [exc |-> res.exc, markers |-> res.markers,
                      msg |-> IF res.exc = "none" THEN msg ELSE "none"]

\* line 154: float(distance_input) if distance_input else 50
MaxDistance(distance_input) ==
    IF Truthy(distance_input) THEN ToFloat(distance_input)
    ELSE PyInt(DefaultMaxDistance)

\* the except clause of line 165 catches ValueError; TypeError and
\* OverflowError leave update_map
Raised(outcome) ==
    IF outcome.t = "ValueError" THEN "invalid_numeric" ELSE outcome.t

\* lines 152-161: the conversions are made in order and the first that
\* raises decides; then the region is tested
Converted(user_lat, user_lng, max_distance) ==
    IF IsException(user_lat) THEN Raised(user_lat)
    ELSE IF IsException(user_lng) THEN Raised(user_lng)
    ELSE IF IsException(max_distance) THEN Raised(max_distance)
    ELSE IF ~InRegion(user_lat, user_lng) THEN "region_warning"
    ELSE "within_distance"

\* which return statement of update_map is reached, or the exception that
\* leaves it
Branch(lat_input, lng_input, distance_input) ==
    IF Truthy(lat_input) /\ Truthy(lng_input)
    THEN Converted(ToFloat(lat_input), ToFloat(lng_input),
                   MaxDistance(distance_input))
    ELSE "showing_all"

\* the return statement `branch` of update_map
Returned(data, branch) ==
    CASE branch \in {"TypeError", "OverflowError"} ->
           [exc |-> branch, markers |-> <<>>, msg |-> "none"]
      [] branch = "within_distance" -> WithMsg(CreateMapNear, branch)
      [] OTHER -> WithMsg(CreateMap(data, SelNone), branch)

\* update_map(lat_input, lng_input, distance_input)
UpdateMap(data, lat_input, lng_input, distance_input) ==
    Returned(data, Branch(lat_input, lng_input, distance_input))

(***************************************************************************)
(* spot_info_extractor.py: query_fishing_spot.                             *)
(***************************************************************************)
\* a surrogate code point (U+D800..U+DFFF) has no UTF-8 encoding
HasSurrogate(cs) == \E i \in 1..Len(cs) : 55296 <= cs[i] /\ cs[i] <= 57343

\* the UTF-8 bytes of a code point
Utf8(c) ==
    IF c < 128 THEN <<c>>
    ELSE IF c < 2048 THEN <<192 + (c \div 64), 128 + (c % 64)>>
    ELSE IF c < 65536
         THEN <<224 + (c \div 4096), 128 + ((c \div 64) % 64), 128 + (c % 64)>>
    ELSE <<240 + (c \div 262144), 128 + ((c \div 4096) % 64),
           128 + ((c \div 64) % 64), 128 + (c % 64)>>

\* bytes urllib.parse.quote leaves alone: letters, digits, "_.-~" and the
\* default safe character "/"
IsSafeByte(b) ==
    \/ (48 <= b /\ b <= 57) \/ (65 <= b /\ b <= 90) \/ (97 <= b /\ b <= 122)
    \/ b \in {95, 46, 45, 126, 47}

\* a byte as itself or as %XX, X of 0-9 and A-F
QuoteByte(b) ==
    IF IsSafeByte(b) THEN <<b>>
    ELSE <<37,
           IF b \div 16 < 10 THEN 48 + (b \div 16) ELSE 55 + (b \div 16),
           IF b % 16 < 10 THEN 48 + (b % 16) ELSE 55 + (b % 16)>>

\* a character as its UTF-8 bytes, each quoted
QuoteChar(c) ==
    IF c < 128 THEN QuoteByte(c)
    ELSE IF c < 2048 THEN QuoteByte(Utf8(c)[1]) \o QuoteByte(Utf8(c)[2])
    ELSE IF c < 65536
         THEN QuoteByte(Utf8(c)[1]) \o QuoteByte(Utf8(c)[2]) \o QuoteByte(Utf8(c)[3])
    ELSE QuoteByte(Utf8(c)[1]) \o QuoteByte(Utf8(c)[2]) \o QuoteByte(Utf8(c)[3])
         \o QuoteByte(Utf8(c)[4])

RECURSIVE QuoteRange(_, _, _)
\* the characters cs[lo..hi] quoted, the range halved
QuoteRange(cs, lo, hi) ==
    IF lo = hi THEN QuoteChar(cs[lo])
    ELSE QuoteRange(cs, lo, (lo + hi) \div 2)
         \o QuoteRange(cs, ((lo + hi) \div 2) + 1, hi)

\* urllib.parse.quote(gewaesser_id): UnicodeEncodeError when the text has
\* no UTF-8 encoding
Quote(cs) ==
    IF HasSurrogate(cs)
    THEN [t |-> "UnicodeEncodeError", s |-> <<>>, n |-> 0, e |-> 0]
    ELSE IF cs = <<>> THEN <<>>
    ELSE QuoteRange(cs, 1, Len(cs))

\* what the GET of a URL does: "ok" (a 2xx answer with a JSON body), or the
\* exception raised by requests.get, raise_for_status or response.json
Responses == {"ok", "ConnectionError", "HTTPError", "JSONDecodeError"}

Record(id)      == [tag |-> "record", gewaesser_id |-> id]
Placeholder(id) == [tag |-> "error",  gewaesser_id |-> id]

\* query_fishing_spot without its second except clause
QueryFishingSpotOneExcept(gewaesser_id, response) ==
    IF HasSurrogate(gewaesser_id)
    THEN [exc |-> "UnicodeEncodeError", value |-> Placeholder(gewaesser_id)]
    ELSE IF response = "ok" THEN [exc |-> "none", value |-> Record(gewaesser_id)]
    \* except requests.exceptions.RequestException
    ELSE IF response \in {"ConnectionError", "HTTPError"}
         THEN [exc |-> "none", value |-> Placeholder(gewaesser_id)]
    ELSE [exc |-> response, value |-> Placeholder(gewaesser_id)]

\* query_fishing_spot(gewaesser_id) when the GET behaves as `response`; an
\* identifier quote() cannot encode raises at line 17, before the GET
QueryFishingSpot(gewaesser_id, response) ==
    IF HasSurrogate(gewaesser_id)
    THEN [exc |-> "UnicodeEncodeError", value |-> Placeholder(gewaesser_id)]
    ELSE IF response = "ok" THEN [exc |-> "none", value |-> Record(gewaesser_id)]
    \* except requests.exceptions.RequestException
    ELSE IF response \in {"ConnectionError", "HTTPError"}
         THEN [exc |-> "none", value |-> Placeholder(gewaesser_id)]
    \* except json.JSONDecodeError
    ELSE IF response = "JSONDecodeError"
         THEN [exc |-> "none", value |-> Placeholder(gewaesser_id)]
    ELSE [exc |-> response, value |-> Placeholder(gewaesser_id)]

(***************************************************************************)
(* State.                                                                  *)
(***************************************************************************)
VARIABLES
    \* spot_info_extractor.py: main()
    pc,            \* where main() is
    fileIdx,       \* the identifier file read next (1..4)
    fileMissing,   \* an identifier file was found missing
    idsRead,       \* the identifiers as read from the files, before line 69
    ids_to_query,  \* ids_to_query
    k,             \* position in ids_to_query of the id queried next
    results,       \* results
    written,       \* elements of results json.dump has written
    fetchCount,    \* per URL, the GET requests made of it
    client,        \* per URL, what a GET of it does
    store,         \* data.json on disk: [content, complete]
    prior,         \* data.json as main() found it
    \* app.py
    data,          \* data.json as json.load returns it
    loadDone,      \* load_fishing_spots has been called
    loadExc,       \* the exception that left it, "none" when it returned
    catalog,       \* the list it returned
    qOp,           \* the handler called last
    qArgs,         \* its arguments
    qRes           \* its outcome: [exc, markers, msg]

harvestVars == <<pc, fileIdx, fileMissing, idsRead, ids_to_query, k, results,
                 written, fetchCount, client, store, prior>>
loadVars    == <<loadDone, loadExc, catalog>>
queryVars   == <<qOp, qArgs, qRes>>
appVars     == <<data, loadVars, queryVars>>
vars        == <<harvestVars, appVars>>

Range(f) == {f[i] : i \in DOMAIN f}
SeqsUpTo(S, n) == UNION {[1..m -> S] : m \in 0..n}

(***************************************************************************)
(* spot_info_extractor.py: main().                                         *)
(***************************************************************************)
IdFiles == <<"potsdam_ids.txt", "cottbus_ids.txt", "frankfurt_oder_ids.txt",
             "salmoniden_ids.txt">>

\* lines an identifier file may hold
LineA     == <<65, 32, 49, 10>>    \* "A 1\n"
LineB     == <<32, 66, 45, 50, 32, 10>>    \* " B-2 \n"
LineBlank == <<12, 32, 10>>    \* "\f \n"
Lines     == {LineA, LineB, LineBlank}

\* an identifier file: absent, or its lines
FileContents ==
    {[exists |-> FALSE, lines |-> <<>>]}
    \cup {[exists |-> TRUE, lines |-> ls] : ls \in SeqsUpTo(Lines, MaxLines)}

RECURSIVE StrippedLines(_)
\* (line.strip() for line in f if line.strip())
StrippedLines(lines) ==
    IF lines = <<>> THEN <<>>
    ELSE (IF Strip(Head(lines)) # <<>> THEN <<Strip(Head(lines))>> ELSE <<>>)
         \o StrippedLines(Tail(lines))

Ids  == {Strip(l) : l \in Lines} \ {<<>>}
URLs == {Quote(id) : id \in Ids}

\* data.json left by an earlier run
PriorStores ==
    {[content |-> c, complete |-> TRUE] :
        c \in {<<Record(Strip(LineA)), Placeholder(Strip(LineB))>>,
               <<Record(Strip(LineB))>>}}

InitHarvest ==
    /\ pc = "read"
    /\ fileIdx = 1
    /\ fileMissing = FALSE
    /\ idsRead = <<>>
    /\ ids_to_query = <<>>
    /\ k = 1
    /\ results = <<>>
    /\ written = 0
    /\ fetchCount = [u \in URLs |-> 0]
    /\ client \in [URLs -> Responses]
    /\ store \in PriorStores
    /\ prior = store
    \* app.py is not running
    /\ data = <<>>
    /\ loadDone = FALSE
    /\ loadExc = "none"
    /\ catalog = <<>>
    /\ qOp = "none"
    /\ qArgs = [sel |-> SelNone, selected |-> <<>>, lat |-> PyNone,
                lng |-> PyNone, dist |-> PyNone]
    /\ qRes = [exc |-> "none", markers |-> <<>>, msg |-> "none"]

\* ReadIdFile that skips a missing file and reads on
ReadIdFileSkipMissing ==
    /\ pc = "read"
    /\ \E f \in FileContents :
         /\ ids_to_query' = ids_to_query \o StrippedLines(f.lines)
         /\ idsRead' = ids_to_query'
         /\ fileIdx' = fileIdx + 1
         /\ pc' = IF fileIdx = Len(IdFiles) THEN "dedup" ELSE "read"
         /\ fileMissing' = (fileMissing \/ ~f.exists)
    /\ UNCHANGED <<k, results, written, fetchCount, client, store, prior,
                   appVars>>

\* lines 47-61: one `with open(...)` of the try block; a missing file ends
\* main() in the except clause
ReadIdFile ==
    /\ pc = "read"
    /\ \E f \in FileContents :
         IF f.exists
         THEN /\ ids_to_query' = ids_to_query \o StrippedLines(f.lines)
              /\ idsRead' = ids_to_query'
              /\ fileIdx' = fileIdx + 1
              /\ pc' = IF fileIdx = Len(IdFiles) THEN "dedup" ELSE "read"
              /\ UNCHANGED fileMissing
         ELSE /\ pc' = "returned"
              /\ fileMissing' = TRUE
              /\ UNCHANGED <<ids_to_query, idsRead, fileIdx>>
    /\ UNCHANGED <<k, results, written, fetchCount, client, store, prior,
                   appVars>>

\* line 69: ids_to_query = list(set(ids_to_query)); the order of the list is
\* whatever the set iterates in
RemoveDuplicates ==
    /\ pc = "dedup"
    /\ LET S == Range(ids_to_query)
       IN  \E perm \in [1..Cardinality(S) -> S] :
             /\ Range(perm) = S
             /\ ids_to_query' = perm
             /\ pc' = IF Cardinality(S) = 0 THEN "save" ELSE "loop"
    /\ k' = 1
    /\ UNCHANGED <<fileIdx, fileMissing, idsRead, results, written, fetchCount,
                   client, store, prior, appVars>>

\* lines 70-77: one iteration of the loop
QueryNext ==
    /\ pc = "loop"
    /\ k <= Len(ids_to_query)
    /\ LET gewaesser_id == ids_to_query[k]
           url          == Quote(gewaesser_id)
           result       == QueryFishingSpot(gewaesser_id, client[url])
       IN  /\ fetchCount' = IF HasSurrogate(gewaesser_id) THEN fetchCount
                             ELSE [fetchCount EXCEPT ![url] = @ + 1]
           /\ IF result.exc # "none"
              THEN /\ pc' = "crashed"
                   /\ UNCHANGED <<results, k>>
              ELSE /\ results' = Append(results, result.value)
                   /\ k' = k + 1
                   /\ pc' = IF k = Len(ids_to_query) THEN "save" ELSE "loop"
    /\ UNCHANGED <<fileIdx, fileMissing, idsRead, ids_to_query, written, client,
                   store, prior, appVars>>

\* the file opened in mode 'a': its contents stay
OpenForAppend(file) == [content |-> file.content, complete |-> FALSE]

\* open(output_filename, 'w'): the file is emptied
OpenForWrite(file) == [content |-> <<>>, complete |-> FALSE]

\* line 83: open('data.json', 'w') truncates the file, or fails (OSError,
\* caught at line 89) and leaves it alone
OpenOutput ==
    /\ pc = "save"
    /\ \/ /\ store' = OpenForWrite(store)
          /\ pc' = "dump"
       \/ /\ pc' = "save_failed"
          /\ UNCHANGED store
    /\ UNCHANGED <<fileIdx, fileMissing, idsRead, ids_to_query, k, results,
                   written, fetchCount, client, prior, appVars>>

\* line 84: json.dump writes the list piece by piece; a write may fail
\* (OSError, caught at line 89) with the earlier pieces already in the file
DumpRecord ==
    /\ pc = "dump"
    /\ written < Len(results)
    /\ \/ /\ store' = [store EXCEPT !.content = Append(@, results[written + 1])]
          /\ written' = written + 1
          /\ pc' = "dump"
       \/ /\ pc' = "save_failed"
          /\ UNCHANGED <<store, written>>
    /\ UNCHANGED <<fileIdx, fileMissing, idsRead, ids_to_query, k, results,
                   fetchCount, client, prior, appVars>>

\* lines 84-87: the closing bracket is written and the file closed, or the
\* last write fails
CloseOutput ==
    /\ pc = "dump"
    /\ written = Len(results)
    /\ \/ /\ store' = [store EXCEPT !.complete = TRUE]
          /\ pc' = "saved"
       \/ /\ pc' = "save_failed"
          /\ UNCHANGED store
    /\ UNCHANGED <<fileIdx, fileMissing, idsRead, ids_to_query, k, results,
                   written, fetchCount, client, prior, appVars>>

NextHarvest ==
    \/ ReadIdFile
    \/ RemoveDuplicates
    \/ QueryNext
    \/ OpenOutput
    \/ DumpRecord
    \/ CloseOutput

(***************************************************************************)
(* app.py over a bounded data.json.                                        *)
(***************************************************************************)

\* the texts of the records
IdP01   == PyStr(<<80, 32, 48, 49>>)    \* "P 01"
IdC02   == PyStr(<<67, 32, 48, 50>>)    \* "C 02"
NameSee == PyStr(<<83, 101, 101>>)    \* "See"
ClubLAV == PyStr(<<76, 65, 86>>)    \* "LAV"
Lat5240 == PyStr(<<53, 50, 46, 52, 48>>)    \* "52.40"
Lng1310 == PyStr(<<49, 51, 46, 49, 48>>)    \* "13.10"

\* a record load_fishing_spots keeps
Base == RawDict(IdP01, NameSee, ClubLAV, Lat5240, Lng1310)

\* an error placeholder written by the harvester: none of the five keys
ErrorPlaceholder == RawDict(Missing, Missing, Missing, Missing, Missing)

IdValues ==
    {Missing, PyNone, PyStr(<<>>), IdC02, PyInt(5), PyInt(0)}
NameValues ==
    {Missing, PyNone, PyStr(<<>>), PyInt(7)}
VereinValues ==
    {Missing, PyNone, PyInt(3)}
LatValues ==
    {Missing,
     PyStr(<<>>),                                                                                 \* ""
     PyStr(<<32, 32>>),                                                                           \* "  "
     PyInt(0),                                                                                    \* 0
     PyFloat(1, <<>>, 0),                                                                         \* 0.0
     PyStr(<<48>>),                                                                               \* "0"
     PyStr(<<52, 55>>),                                                                           \* "47"
     PyStr(<<53, 53>>),                                                                           \* "55"
     PyStr(<<52, 54, 46, 57, 57>>),                                                               \* "46.99"
     PyStr(<<53, 53, 46, 48, 49>>),                                                               \* "55.01"
     PyStr(<<53, 53, 46, 48, 48, 49>>),                                                           \* "55.001"
     PyStr(<<32, 53, 50, 46, 53, 32>>),                                                           \* " 52.5 "
     PyStr(<<12, 53, 50, 46, 53, 31>>),                                                           \* "\f52.5\x1f"
     PyStr(<<97, 98, 99>>),                                                                       \* "abc"
     PyStr(<<110, 97, 110>>),                                                                     \* "nan"
     PyStr(<<73, 110, 102, 105, 110, 105, 116, 121>>),                                            \* "Infinity"
     PyStr(<<53, 101, 49>>),                                                                      \* "5e1"
     PyStr(<<48, 46, 48, 48, 53, 101, 52>>),                                                      \* "0.005e4"
     PyStr(<<65300, 65304>>),                                                                     \* fullwidth "48"
     PyFloat(1, <<5, 2, 4>>, 2),                                                                  \* 52.4
     PyBool(TRUE)}                                                                                \* True
LngValues ==
    {Missing,
     PyInt(0),                            \* 0
     PyStr(<<53>>),                       \* "5"
     PyStr(<<49, 54>>),                   \* "16"
     PyStr(<<52, 46, 57, 57>>),           \* "4.99"
     PyStr(<<49, 54, 46, 48, 49>>),       \* "16.01"
     PyStr(<<49, 95, 48>>),               \* "1_0"
     PyStr(<<49, 46, 54, 69, 43, 49>>),   \* "1.6E+1"
     PyFloat(1, <<5>>, 1)}                \* 5.0

\* what data.json may hold, one field of Base changed at a time, and JSON
\* values that are no object
NormalizeRecords ==
    {Base, ErrorPlaceholder}
    \cup {[Base EXCEPT !.id = v] : v \in IdValues}
    \cup {[Base EXCEPT !.bezeichnung = v] : v \in NameValues}
    \cup {[Base EXCEPT !.verein = v] : v \in VereinValues}
    \cup {[Base EXCEPT !.lat = v] : v \in LatValues}
    \cup {[Base EXCEPT !.lng = v] : v \in LngValues}
    \cup {RawNonDict("int"), RawNonDict("str")}

InitNormalize ==
    \* the harvester is not running
    /\ pc = "idle"
    /\ fileIdx = 1
    /\ fileMissing = FALSE
    /\ idsRead = <<>>
    /\ ids_to_query = <<>>
    /\ k = 1
    /\ results = <<>>
    /\ written = 0
    /\ fetchCount = [u \in URLs |-> 0]
    /\ client = [u \in URLs |-> "ok"]
    /\ store = [content |-> <<>>, complete |-> TRUE]
    /\ prior = store
    /\ data \in SeqsUpTo(NormalizeRecords, MaxRecords)
    /\ loadDone = FALSE
    /\ loadExc = "none"
    /\ catalog = <<>>
    /\ qOp = "none"
    /\ qArgs = [sel |-> SelNone, selected |-> <<>>, lat |-> PyNone,
                lng |-> PyNone, dist |-> PyNone]
    /\ qRes = [exc |-> "none", markers |-> <<>>, msg |-> "none"]

\* line 171: fishing_spots = load_fishing_spots()
LoadCatalog ==
    /\ ~loadDone
    /\ LET loaded == LoadFishingSpots(data)
       IN  /\ loadDone' = TRUE
           /\ loadExc' = loaded.exc
           /\ catalog' = loaded.spots
    /\ UNCHANGED <<harvestVars, data, queryVars>>

NextNormalize == LoadCatalog

(***************************************************************************)
(* The query handlers.                                                     *)
(***************************************************************************)
Spot(id, lat, lng) == RawDict(id, NameSee, ClubLAV, lat, lng)

QueryRecords ==
    {Spot(IdP01, Lat5240, Lng1310),
     Spot(IdC02, PyStr(<<53, 49, 46, 55, 54>>), PyFloat(1, <<1, 4, 3, 3>>, 2)),    \* "51.76", 14.33
     Spot(PyInt(5), Lat5240, Lng1310),
     RawNonDict("int")}

\* selected_cities of a direct call of create_map
\* "P", "C", "P 0"
PrefixChoices == <<<<80>>, <<67>>, <<80, 32, 48>>>>

RECURSIVE Sublist(_, _, _)
\* the elements of `choices` that are in S, in the order of `choices`
Sublist(choices, S, i) ==
    IF i > Len(choices) THEN <<>>
    ELSE (IF choices[i] \in S THEN <<choices[i]>> ELSE <<>>)
         \o Sublist(choices, S, i + 1)

Selections ==
    {SelNone}
    \cup {SelList(Sublist(PrefixChoices, S, 1)) : S \in SUBSET Range(PrefixChoices)}

\* values of the CheckboxGroup, and a list naming a city it does not offer
CheckboxValues ==
    {Sublist(CityNames, S, 1) : S \in SUBSET Range(CityNames)}
    \cup {<<"Berlin", "Cottbus">>}

LatInputs ==
    {PyNone,                                       \* None
     PyInt(0),                                     \* 0
     PyFloat(1, <<5, 2, 5>>, 2),                   \* 52.5
     PyFloat(1, <<6>>, 2),                         \* 60.0
     PyStr(<<32, 53, 46, 50, 53, 101, 49, 12>>),   \* " 5.25e1\f"
     PyBigInt(1, <<1>> \o Zeros(400)),             \* 10**400
     PyStr(<<97, 98, 99>>)}                        \* "abc"
LngInputs ==
    {PyNone,                                  \* None
     PyFloat(1, <<1, 3, 4>>, 2),              \* 13.4
     PyFloat(1, <<2>>, 2),                    \* 20.0
     PyStr(<<49, 51, 46, 52, 48, 48, 49>>)}   \* "13.4001"
DistInputs ==
    {PyNone,      \* None
     PyInt(10)}   \* 10

InitQuery ==
    \* the harvester is not running
    /\ pc = "idle"
    /\ fileIdx = 1
    /\ fileMissing = FALSE
    /\ idsRead = <<>>
    /\ ids_to_query = <<>>
    /\ k = 1
    /\ results = <<>>
    /\ written = 0
    /\ fetchCount = [u \in URLs |-> 0]
    /\ client = [u \in URLs |-> "ok"]
    /\ store = [content |-> <<>>, complete |-> TRUE]
    /\ prior = store
    /\ data \in SeqsUpTo(QueryRecords, MaxSpots)
    /\ loadDone = FALSE
    /\ loadExc = "none"
    /\ catalog = <<>>
    /\ qOp = "none"
    /\ qArgs = [sel |-> SelNone, selected |-> <<>>, lat |-> PyNone,
                lng |-> PyNone, dist |-> PyNone]
    /\ qRes = [exc |-> "none", markers |-> <<>>, msg |-> "none"]

NoArgs == [sel |-> SelNone, selected |-> <<>>, lat |-> PyNone,
           lng |-> PyNone, dist |-> PyNone]

\* create_map(selected_cities) called directly
CallCreateMap ==
    /\ \E sel \in Selections :
         /\ qOp' = "create_map"
         /\ qArgs' = [NoArgs EXCEPT !.sel = sel]
         /\ qRes' = WithMsg(CreateMap(data, sel), "none")
    /\ UNCHANGED <<harvestVars, data, loadVars>>

\* lines 413-417: the CheckboxGroup changes to `selected` and
\* update_map_by_cities runs on it
ChangeCitySelection ==
    /\ \E selected \in CheckboxValues :
         /\ qOp' = "update_map_by_cities"
         /\ qArgs' = [NoArgs EXCEPT !.selected = selected]
         /\ qRes' = WithMsg(UpdateMapByCities(data, selected), "none")
    /\ UNCHANGED <<harvestVars, data, loadVars>>

\* update_map(lat_input, lng_input, distance_input)
CallUpdateMap ==
    /\ \E lat \in LatInputs, lng \in LngInputs, dist \in DistInputs :
         /\ qOp' = "update_map"
         /\ qArgs' = [NoArgs EXCEPT !.lat = lat, !.lng = lng, !.dist = dist]
         /\ qRes' = UpdateMap(data, lat, lng, dist)
    /\ UNCHANGED <<harvestVars, data, loadVars>>

NextQuery ==
    \/ CallCreateMap
    \/ ChangeCitySelection
    \/ CallUpdateMap

(***************************************************************************)
(* Specifications.                                                         *)
(***************************************************************************)
SpecHarvest   == InitHarvest /\ [][NextHarvest]_vars
SpecNormalize == InitNormalize /\ [][NextNormalize]_vars
SpecQuery     == InitQuery /\ [][NextQuery]_vars

(***************************************************************************)
(* Properties of the harvester (SpecHarvest).                              *)
(***************************************************************************)
DistinctIds == Range(idsRead)
OutcomesFor(id) == {i \in 1..Len(results) : results[i].gewaesser_id = id}
LoopFinished == pc \in {"save", "dump", "saved", "save_failed"}

\* C1: whatever the identifier files hold (duplicates included) and whichever
\* GETs fail, no failed GET ends the run, and once the loop is over every
\* distinct identifier read has been requested exactly once and has exactly
\* one outcome - a record when its GET succeeded, an error placeholder when
\* it failed (connection error, bad status, undecodable body) - while an
\* identifier that was not read has been neither requested nor given an
\* outcome.
C1_OneOutcomePerId ==
    /\ pc # "crashed"
    /\ \A id \in Ids : fetchCount[Quote(id)] <= 1
    /\ LoopFinished =>
         /\ Len(results) = Cardinality(DistinctIds)
         /\ \A id \in Ids :
              IF id \in DistinctIds
              THEN /\ fetchCount[Quote(id)] = 1
                   /\ Cardinality(OutcomesFor(id)) = 1
                   /\ \A i \in OutcomesFor(id) :
                        results[i].tag = IF client[Quote(id)] = "ok"
                                         THEN "record" ELSE "error"
              ELSE /\ fetchCount[Quote(id)] = 0
                   /\ OutcomesFor(id) = {}

\* the loop is over, an identifier was read twice, one GET failed and
\* another succeeded
C1_Witness ==
    /\ LoopFinished
    /\ Len(idsRead) > Cardinality(DistinctIds)
    /\ \E i, j \in 1..Len(results) :
         results[i].tag = "record" /\ results[j].tag = "error"

\* C2: data.json always holds a whole harvest result, the one main() found
\* or the one of this run, and after a failed save it is the one main()
\* found.
C2_StoreAlwaysWhole ==
    /\ store.complete
    /\ \/ store = prior
       \/ pc = "saved" /\ store.content = results
    /\ pc = "save_failed" => store = prior

\* C9: data.json is touched only once the loop is over and every distinct
\* identifier has its outcome; what is in the file while it is written is
\* the first `written` outcomes of this run and nothing else, and after the
\* save the file is exactly `results`.
C9_WholesaleAfterAllOutcomes ==
    /\ store # prior =>
         /\ pc \in {"dump", "saved", "save_failed"}
         /\ k > Len(ids_to_query)
         /\ \A id \in DistinctIds : Cardinality(OutcomesFor(id)) = 1
         /\ store.content = SubSeq(results, 1, written)
    /\ pc = "saved" => store = [content |-> results, complete |-> TRUE]

\* two outcomes were saved over different earlier contents
C9_Witness ==
    /\ pc = "saved"
    /\ Len(results) = 2
    /\ store.content # prior.content

\* C10: once an identifier file is found missing, main() has returned, no
\* GET was or is made - not even for identifiers read from the files before
\* it - and data.json is as main() found it.
C10_MissingFileNoFetch ==
    fileMissing =>
        /\ pc = "returned"
        /\ \A u \in URLs : fetchCount[u] = 0
        /\ results = <<>>
        /\ store = prior

\* a file was missing after identifiers had been read from an earlier one
C10_Witness ==
    /\ fileMissing
    /\ pc = "returned"
    /\ idsRead # <<>>

(***************************************************************************)
(* Properties of load_fishing_spots (SpecNormalize).                       *)
(***************************************************************************)
\* C3: load_fishing_spots returns for every list of JSON values.
C3_NeverRaises == loadDone => loadExc = "none"

IsNonEmptyStr(v) == v.t = "str" /\ Len(v.s) > 0

\* lo <= x <= hi for a number x
WithinBounds(lo, x, hi) == NumCmp(PyInt(lo), x) <= 0 /\ NumCmp(x, PyInt(hi)) <= 0

\* C4: every dict of the returned list has a non-empty string id, a
\* non-empty string bezeichnung, a string verein and float coordinates with
\* 47 <= lat <= 55, 5 <= lng <= 16, neither of them zero.
C4_SpotInvariants ==
    (loadDone /\ loadExc = "none") =>
        \A i \in 1..Len(catalog) :
            /\ IsNonEmptyStr(catalog[i].id)
            /\ IsNonEmptyStr(catalog[i].bezeichnung)
            /\ catalog[i].verein.t = "str"
            /\ catalog[i].lat.t = "float" /\ catalog[i].lng.t = "float"
            /\ WithinBounds(47, catalog[i].lat, 55)
            /\ WithinBounds(5, catalog[i].lng, 16)
            /\ catalog[i].lat.s # <<>> /\ catalog[i].lng.s # <<>>

\* a value counts as empty when it is absent, null, false, zero, "" or []
IsEmptyValue(v) ==
    \/ v.t \in {"missing", "none"}
    \/ v.t = "str" /\ v.s = <<>>
    \/ v.t = "list" /\ v.n = 0
    \/ v.t = "bool" /\ v.n = 0
    \/ v.t \in {"int", "float"} /\ v.s = <<>>

IsLiteralZero(v) == v.t \in {"int", "float"} /\ v.s = <<>>

\* the record is one the catalogue must hold
MustSurvive(rec) ==
    /\ rec.t = "dict"
    /\ ~IsEmptyValue(rec.id) /\ ~IsEmptyValue(rec.bezeichnung)
    /\ ~IsEmptyValue(rec.lat) /\ ~IsEmptyValue(rec.lng)
    /\ ~IsLiteralZero(rec.lat) /\ ~IsLiteralZero(rec.lng)
    /\ LET x == CoerceCoordinate(rec.lat)
           y == CoerceCoordinate(rec.lng)
       IN  /\ x.t = "float" /\ y.t = "float"
           /\ WithinBounds(47, x, 55)
           /\ WithinBounds(5, y, 16)

Survivors(d) == SelectSeq(d, MustSurvive)

\* C5: when load_fishing_spots returns, the list returned has one entry per
\* record of data.json that has non-empty id, bezeichnung, lat and lng (empty:
\* absent, null, false, zero, "" or []), whose lat and lng are not the number
\* 0 and parse, once trimmed, as numbers inside [47,55] x [5,16], the bounds
\* included; the entries carry the id, bezeichnung and parsed coordinates of
\* these records, in the order of the records.
C5_ExactlyTheSurvivors ==
    (loadDone /\ loadExc = "none") =>
        LET surv == Survivors(data)
        IN  /\ Len(catalog) = Len(surv)
            /\ \A j \in 1..Len(surv) :
                 /\ catalog[j].id = surv[j].id
                 /\ catalog[j].bezeichnung = surv[j].bezeichnung
                 /\ catalog[j].lat = CoerceCoordinate(surv[j].lat)
                 /\ catalog[j].lng = CoerceCoordinate(surv[j].lng)

\* of two records the first was dropped and the second, on the bound
\* lat = 47, was kept
C5_Witness ==
    /\ loadDone /\ loadExc = "none"
    /\ Len(data) = 2 /\ Len(catalog) = 1
    /\ ~MustSurvive(data[1])
    /\ catalog[1].lat = PyFloat(1, <<4, 7>>, 2)

(***************************************************************************)
(* Properties of the query handlers (SpecQuery).                           *)
(***************************************************************************)
\* data.json yields a catalogue of Spots: load_fishing_spots returns and
\* every id is a string
HoldsCatalog(d) ==
    LET loaded == LoadFishingSpots(d)
    IN  /\ loaded.exc = "none"
        /\ \A i \in 1..Len(loaded.spots) : loaded.spots[i].id.t = "str"

IsPrefixOf(p, s) == Len(p) <= Len(s) /\ \A i \in 1..Len(p) : p[i] = s[i]

\* the spots of `cat` whose id starts with a prefix of P, in the order of cat
WithPrefixIn(cat, P) ==
    LET Test(spot) == \E p \in P : IsPrefixOf(p, spot.id.s)
    IN  SelectSeq(cat, Test)

PrefixOfCity == [c \in {"Potsdam", "Cottbus", "Frankfurt-Oder"} |->
                    CASE c = "Potsdam" -> <<80>>
                      [] c = "Cottbus" -> <<67>>
                      [] c = "Frankfurt-Oder" -> <<70>>]

\* the prefixes the last call asked for
AskedPrefixes ==
    IF qOp = "create_map" THEN Range(qArgs.sel.items)
    ELSE {PrefixOfCity[c] : c \in Range(qArgs.selected) \cap DOMAIN PrefixOfCity}

\* C6: over a catalogue of Spots, create_map and update_map_by_cities put on
\* the map exactly the Spots whose id starts with one of the prefixes asked
\* for, in catalogue order, and nothing when no prefix is asked for (None,
\* an empty list, no checkbox ticked).
C6_ExactlyThePrefixed ==
    (qOp \in {"create_map", "update_map_by_cities"} /\ HoldsCatalog(data)) =>
        LET want == WithPrefixIn(LoadFishingSpots(data).spots, AskedPrefixes)
        IN  /\ qRes.exc = "none"
            /\ Len(qRes.markers) = Len(want)
            /\ \A i \in 1..Len(want) :
                 /\ qRes.markers[i].id = want[i].id
                 /\ qRes.markers[i].lat = want[i].lat
                 /\ qRes.markers[i].lng = want[i].lng

\* two boxes ticked, a catalogue of two Spots, one of them shown
C6_Witness ==
    /\ qOp = "update_map_by_cities"
    /\ Len(qArgs.selected) = 2
    /\ HoldsCatalog(data)
    /\ Len(LoadFishingSpots(data).spots) = 2
    /\ qRes.exc = "none"
    /\ Len(qRes.markers) = 1

IsNumber(v) == v.t \in {"int", "float"}
InsideRegion(lat, lng) == WithinBounds(47, lat, 55) /\ WithinBounds(5, lng, 16)

\* the last call was update_map with numbers for both coordinates, over a
\* data.json that load_fishing_spots accepts
NumericPointQuery ==
    /\ qOp = "update_map"
    /\ IsNumber(qArgs.lat) /\ IsNumber(qArgs.lng)
    /\ LoadFishingSpots(data).exc = "none"

\* C7: update_map with a reference point inside the region returns, reports
\* the distance query, and every Spot it shows carries its distance (the
\* distance being at most the maximum asked for, 50 km by default).
C7_DistanceQueryReturns ==
    (NumericPointQuery /\ InsideRegion(qArgs.lat, qArgs.lng)) =>
        /\ qRes.exc = "none"
        /\ qRes.msg = "within_distance"
        /\ \A i \in 1..Len(qRes.markers) : qRes.markers[i].has_distance

\* C8: update_map with a numeric reference point outside the region returns
\* the region warning and nothing else.
C8_OutsideRegionRejected ==
    (NumericPointQuery /\ ~InsideRegion(qArgs.lat, qArgs.lng)) =>
        /\ qRes.exc = "none"
        /\ qRes.msg = "region_warning"

====
